---- MODULE Spec2Model ----
(***************************************************************************)
(* State-machine model of src/keys/drivers/YubiKeyInterfaceUSB.cpp: the    *)
(* USB challenge-response driver (openKey / getSerial / openKeySerial,     *)
(* findValidKeys, testChallenge, performTestChallenge, challenge,          *)
(* performChallenge).                                                      *)
(*                                                                         *)
(* The driver is single threaded.  Every public operation is modelled as a *)
(* chain of steps, one step per call into the device-access library        *)
(* (ykcore): the program counter pc names the next call.  The outcome of   *)
(* each library call is chosen by the environment.                         *)
(*                                                                         *)
(* The attached devices are the enumeration indices 0 .. attached-1.  The  *)
(* device at index d carries the serial number d+1 (serial numbers are     *)
(* unique per device and the driver only tests them for equality and for   *)
(* zero).  A library handle (YK_KEY* ) is modelled by the index it was     *)
(* opened at, nullptr by NullKey.                                          *)
(***************************************************************************)
EXTENDS Integers, Sequences, FiniteSets, TLC

\* ---------------------------------------------------------------- bounds
\* Largest number of attached devices (one more than MAX_KEYS).
MaxDevices == 5
\* Longest challenge handed to the executor (one more than the buffer).
MaxChallengeLen == 65

\* ------------------------------------------------------ program constants
MAX_KEYS == 4
\* ykdef.h product ids the driver compares against / enumerates
YUBIKEY_PID == 16
NEO_OTP_U2F_CCID_PID == 278
YK4_OTP_PID == 1025
\* ykdef.h status bits and command codes
CONFIG1_VALID == 1
CONFIG2_VALID == 2
SLOT_CHAL_HMAC1 == 48
SLOT_CHAL_HMAC2 == 56
\* ykcore.h error numbers
YK_EUSBERR == 1
YK_EWRITEERR == 3
YK_ETIMEOUT == 4
YK_ENOKEY == 5
YK_EWOULDBLOCK == 11
\* transport buffer length and HMAC-SHA1 length used by performChallenge
CHALLENGE_LEN == 64
RESPONSE_LEN == 20

NullKey == 0 - 1

\* ------------------------------------------------------- the environment
\* Serial number stored in the device at enumeration index d.
SerialAt(d) == d + 1

\* Product ids an attached device may report: the oldest family, the newest
\* legacy family (the threshold itself) and a YubiKey 4.
Pids == {YUBIKEY_PID, NEO_OTP_U2F_CCID_PID, YK4_OTP_PID}

\* Low two bits of ykds_touch_level(): which slots hold a valid configuration.
TouchLevels == 0 .. 3

\* Bytes the random generator may deliver for a test challenge.
RandomBytes == {0, 255}

\* ------------------------------------------------------------ the state
VARIABLES
    attached,       \* number of devices attached (the world)
    m_initialized,  \* YubiKeyInterfaceUSB::m_initialized
    m_error,        \* YubiKeyInterfaceUSB::m_error, <<>> is the empty string
    pc,             \* the next library call of the running operation
    op,             \* the public operation running, or the last one that returned
    argSerial,      \* slot.first of testChallenge / challenge
    argSlot,        \* slot.second of testChallenge / challenge
    chal,           \* the challenge argument of challenge()
    response,       \* the response argument of challenge()
    i,              \* loop index of findValidKeys / openKeySerial
    yk_key,         \* the local yk_key
    serial,         \* findValidKeys: the local serial
    pid,            \* findValidKeys: the local pid
    touch,          \* findValidKeys: ykds_touch_level(st)
    slot,           \* findValidKeys: the local slot
    wouldBlock,     \* the local bool wouldBlock ("undef" until written)
    keyMap,         \* findValidKeys: keyMap, the returned inventory
    tcRet,          \* value returned by testChallenge
    chRet,          \* value returned by challenge
    open,           \* library: the handles that are open
    misuse,         \* library: a handle was closed that was not open
    touched,        \* library: some call was made by the running operation
    xchg,           \* library: last exchange on the open handle, or NoXchg
    oksFault,       \* library: openKeySerial met a failing open or getSerial
    notif,          \* signals emitted by the running operation, in order
    fvkSkip         \* library: why findValidKeys got no key at the last index

vars == <<attached, m_initialized, m_error, pc, op, argSerial, argSlot, chal,
          response, i, yk_key, serial, pid, touch, slot, wouldBlock, keyMap,
          tcRet, chRet, open, misuse, touched, xchg, oksFault, notif,
          fvkSkip>>

world == <<attached, m_initialized>>
args == <<argSerial, argSlot, chal>>
fvkLocals == <<serial, pid, touch, slot, wouldBlock>>
results == <<tcRet, chRet>>

\* --------------------------------------------------- the library's answers
\* yk_open_key_vid_pid(index): 0 for a handle, or the yk_errno of the failure.  An index
\* past the attached devices is YK_ENOKEY; an attached device opens, or fails
\* with a USB error or with another hardware error.
OpenOutcomes(index) ==
    IF index < attached THEN {0, YK_EUSBERR, YK_EWRITEERR} ELSE {YK_ENOKEY}

\* yk_challenge_response(): the return value and, for 0, the yk_errno left.
XchgOutcomes ==
    {[ret |-> 1, errno |-> 0]} \cup
    {[ret |-> 0, errno |-> e] :
        e \in {0, YK_EWOULDBLOCK, YK_ETIMEOUT, YK_EUSBERR, YK_EWRITEERR}}

\* ------------------------------------------------------------ pure parts
EmptyMap == [k \in {} |-> <<>>]

\* QMap::insert: adds the key or replaces its value.
MapInsert(m, key, value) ==
    [k \in DOMAIN m \cup {key} |-> IF k = key THEN value ELSE m[k]]

\* findValidKeys, line 151: the configuration-valid bit of a slot.
ConfigBit(s) == IF s = 1 THEN CONFIG1_VALID ELSE CONFIG2_VALID

\* findValidKeys, line 152: ykds_touch_level(st) & config.
SlotConfigured(t, s) == (t \div ConfigBit(s)) % 2 = 1

\* findValidKeys, line 158: Neo and below are never challenged.
IsLegacyStrict(p) == p < NEO_OTP_U2F_CCID_PID

IsLegacy(p) == p <= NEO_OTP_U2F_CCID_PID

\* findValidKeys, lines 159-160: "%1 [%2] - Slot %3" (the device name is the
\* token "name": m_pid_names is not part of the driver source).
LegacyDisplayPress(ser, s) == <<"name", ser, s, "Press">>

LegacyDisplay(ser, s) == <<"name", ser, s>>

\* findValidKeys, lines 163-169: "%1 [%2] - Slot %3, %4".
ProbedDisplay(ser, s, wb) ==
    <<"name", ser, s, IF wb THEN "Press" ELSE "Passive">>

\* performChallenge, line 264.
YkCmd(s) == IF s = 1 THEN SLOT_CHAL_HMAC1 ELSE SLOT_CHAL_HMAC2

\* performChallenge, lines 265-280: PKCS7-style padding to 64 bytes.
PaddedChallengeZero(c) ==
    LET padLen == CHALLENGE_LEN - Len(c)
    IN  IF padLen > 0 THEN c \o [k \in 1 .. padLen |-> 0] ELSE c

PaddedChallenge(c) ==
    LET padLen == CHALLENGE_LEN - Len(c)
    IN  IF padLen > 0 THEN c \o [k \in 1 .. padLen |-> padLen % 256] ELSE c

\* Botan::secure_vector::resize: truncates, or appends zero bytes.
Resize(buf, n) ==
    [k \in 1 .. n |-> IF k <= Len(buf) THEN buf[k] ELSE 0]

\* What the key leaves in the output buffer: on success the HMAC-SHA1 digest
\* in the first 20 bytes, otherwise nothing.
DeviceWrite(buf, o) ==
    IF o.ret = 1
    THEN [k \in 1 .. Len(buf) |-> IF k <= RESPONSE_LEN THEN 165 ELSE buf[k]]
    ELSE buf

\* performChallenge, lines 293-310: the result for an exchange outcome.
ChallengeResultOfNoErrnoTest(o) ==
    IF o.ret = 0
    THEN IF o.errno = YK_EWOULDBLOCK THEN "YCR_WOULDBLOCK" ELSE "YCR_ERROR"
    ELSE "YCR_SUCCESS"

ChallengeResultOf(o) ==
    IF o.ret = 0
    THEN IF o.errno = YK_EWOULDBLOCK THEN "YCR_WOULDBLOCK"
         ELSE IF o.errno # 0 THEN "YCR_ERROR"
         ELSE "YCR_SUCCESS"
    ELSE "YCR_SUCCESS"

\* performChallenge, lines 263 and 293-307: m_error after the exchange.
ChallengeErrorOfEarly(o) ==
    IF o.ret = 0 /\ o.errno # 0
    THEN IF o.errno = YK_ETIMEOUT THEN <<"Timeout">>
         ELSE IF o.errno = YK_EUSBERR THEN <<"UsbError">>
         ELSE <<"ChallengeFailed", o.errno>>
    ELSE <<>>

ChallengeErrorOf(o) ==
    IF o.ret = 0 /\ o.errno # YK_EWOULDBLOCK /\ o.errno # 0
    THEN IF o.errno = YK_ETIMEOUT THEN <<"Timeout">>
         ELSE IF o.errno = YK_EUSBERR THEN <<"UsbError">>
         ELSE <<"ChallengeFailed", o.errno>>
    ELSE <<>>

\* performChallenge, lines 268-291: the response buffer handed back.  The
\* buffer is cleared first (line 268), so what it held before is gone.
ResponseAfterUntruncated(o) ==
    DeviceWrite(Resize(<<>>, CHALLENGE_LEN), o)

ResponseAfter(o) ==
    Resize(DeviceWrite(Resize(<<>>, CHALLENGE_LEN), o), RESPONSE_LEN)

\* No exchange has been issued on the open handle.
NoXchg ==
    [key |-> NullKey, cmd |-> 0, mayBlock |-> FALSE, sent |-> <<>>,
     sentLen |-> 0, outCap |-> 0, outcome |-> [ret |-> 1, errno |-> 0],
     respLen |-> 0]

\* performChallenge, lines 287-291: the record of the call as the library
\* sees it, and the size of the response buffer when performChallenge
\* returns (the probes pass a local buffer, line 211).
XchgRecord(key, s, mayBlock, c, resp, o) ==
    [key |-> key, cmd |-> YkCmd(s), mayBlock |-> mayBlock,
     sent |-> PaddedChallenge(c), sentLen |-> Len(PaddedChallenge(c)),
     outCap |-> Len(Resize(<<>>, CHALLENGE_LEN)), outcome |-> o,
     respLen |-> Len(ResponseAfter(o))]

\* performTestChallenge, line 212: the probe passes mayBlock = false.
ProbeMayBlockTrue == TRUE

ProbeMayBlock == FALSE

\* performTestChallenge, lines 213-219: the probe's verdict.
TestRet(o) == ChallengeResultOf(o) \in {"YCR_SUCCESS", "YCR_WOULDBLOCK"}

\* performTestChallenge, lines 214-216: the out-parameter.
TestWouldBlockInverted(o, old) ==
    IF ChallengeResultOf(o) \in {"YCR_SUCCESS", "YCR_WOULDBLOCK"}
    THEN ChallengeResultOf(o) # "YCR_WOULDBLOCK"
    ELSE old

TestWouldBlock(o, old) ==
    IF TestRet(o) THEN ChallengeResultOf(o) = "YCR_WOULDBLOCK" ELSE old

\* challenge, line 236.
NotInitializedMsg == <<"NotInitialized">>

\* challenge, lines 243-244: the message names the serial.
NotFoundMsgNoSerial(ser) == <<"NotFound", 0>>

NotFoundMsg(ser) == <<"NotFound", ser>>

\* ------------------------------------------------------- library effects
\* closeKey / yk_close_key: closing nullptr is a no-op; the exchange record of
\* the handle goes with it.
ClosedSet(h) == open \ {h}

CloseMisuse(h) == misuse \/ (h # NullKey /\ h \notin open)

\* ------------------------------------------------------------ initial state
\* The state after the constructor: yk_init() succeeded or failed.
Init ==
    /\ attached \in 0 .. MaxDevices
    /\ m_initialized \in BOOLEAN
    /\ m_error = <<>>
    /\ pc = "idle"
    /\ op = "none"
    /\ argSerial = 0
    /\ argSlot = 1
    /\ chal = <<>>
    /\ response = <<>>
    /\ i = 0
    /\ yk_key = NullKey
    /\ serial = 0
    /\ pid = 0
    /\ touch = 0
    /\ slot = 1
    /\ wouldBlock = "undef"
    /\ keyMap = EmptyMap
    /\ tcRet = FALSE
    /\ chRet = "none"
    /\ open = {}
    /\ misuse = FALSE
    /\ touched = FALSE
    /\ xchg = NoXchg
    /\ oksFault = FALSE
    /\ notif = <<>>
    /\ fvkSkip = "none"

\* What every public call starts from: dead locals and the previous call's
\* results are forgotten, the library's per-call observations restart.
FreshCall(name, ser, s, c, resp) ==
    /\ pc = "idle"
    /\ op' = name
    /\ argSerial' = ser
    /\ argSlot' = s
    /\ chal' = c
    /\ response' = resp
    /\ i' = 0
    /\ yk_key' = NullKey
    /\ serial' = 0
    /\ pid' = 0
    /\ touch' = 0
    /\ slot' = 1
    /\ wouldBlock' = "undef"
    /\ keyMap' = EmptyMap
    /\ touched' = FALSE
    /\ xchg' = NoXchg
    /\ oksFault' = FALSE
    /\ notif' = <<>>
    /\ fvkSkip' = "none"
    /\ UNCHANGED <<world, open, misuse>>

\* ------------------------------------------------------------ findValidKeys
\* lines 120-122: where findValidKeys goes after clearing the error.
FvkEntryUnchecked == "fvk_open"

FvkEntry == IF m_initialized THEN "fvk_open" ELSE "done"

\* lines 117-124: clear the error; an uninitialised driver returns {}.
FindValidKeys ==
    /\ FreshCall("findValidKeys", 0, 1, <<>>, <<>>)
    /\ m_error' = <<>>
    /\ tcRet' = FALSE
    /\ chRet' = "none"
    /\ pc' = FvkEntry

\* lines 176-177: only the end of the enumeration leaves the loop.
ScanEndsOnAnyError(o) == o # 0

ScanEnds(o) == o = YK_ENOKEY

\* lines 176-183: the branch taken after openKey(i) answered o.
SkipOf(o) ==
    IF o = 0 THEN "none"
    ELSE IF o = YK_ENOKEY THEN "nokey"
    ELSE IF o = YK_EUSBERR THEN "usb"
    ELSE "error"

\* lines 127-128 and 176-186: the loop head and openKey(i).
FvkOpen ==
    /\ pc = "fvk_open"
    /\ IF i >= MAX_KEYS
       THEN /\ pc' = "done"
            /\ UNCHANGED <<i, yk_key, open, touched, xchg, fvkSkip>>
       ELSE \E o \in OpenOutcomes(i) :
              /\ touched' = TRUE
              /\ xchg' = NoXchg
              /\ IF o = 0
                 THEN /\ yk_key' = i
                      /\ open' = open \cup {i}
                      /\ pc' = "fvk_serial"
                      /\ i' = i
                 ELSE IF ScanEnds(o)
                 THEN /\ pc' = "done"
                      /\ UNCHANGED <<i, yk_key, open>>
                 ELSE /\ pc' = "fvk_open"
                      /\ i' = i + 1
                      /\ UNCHANGED <<yk_key, open>>
              /\ fvkSkip' = SkipOf(o)
    /\ UNCHANGED <<world, m_error, op, args, response, fvkLocals, keyMap,
                   results, misuse, oksFault, notif>>

\* line 131: a serial of 0 is a serial that could not be read.
SerialUnreadableNever(ser) == FALSE

SerialUnreadable(ser) == ser = 0

\* lines 130-147: getSerial (0 when the serial cannot be read: close and go
\* on), then the status block and the product id.
FvkSerial ==
    /\ pc = "fvk_serial"
    /\ touched' = TRUE
    /\ \E got \in {0, SerialAt(yk_key)} :
          /\ serial' = got
          /\ IF SerialUnreadable(got)
             THEN /\ open' = ClosedSet(yk_key)
                  /\ misuse' = CloseMisuse(yk_key)
                  /\ xchg' = NoXchg
                  /\ yk_key' = NullKey
                  /\ i' = i + 1
                  /\ pc' = "fvk_open"
                  /\ fvkSkip' = "serial"
                  /\ UNCHANGED <<pid, touch, slot>>
             ELSE /\ \E p \in Pids, t \in TouchLevels :
                        /\ pid' = p
                        /\ touch' = t
                  /\ slot' = 1
                  /\ pc' = "fvk_slot"
                  /\ UNCHANGED <<open, misuse, xchg, yk_key, i, fvkSkip>>
    /\ UNCHANGED <<world, m_error, op, args, response, wouldBlock, keyMap,
                   results, oksFault, notif>>

\* lines 150-172: one pass of the slot loop.
FvkSlot ==
    /\ pc = "fvk_slot"
    /\ slot' = slot + 1
    /\ pc' = IF slot >= 2 THEN "fvk_close" ELSE "fvk_slot"
    /\ IF ~SlotConfigured(touch, slot)
       THEN UNCHANGED <<keyMap, m_error, wouldBlock, xchg>>
       ELSE IF IsLegacy(pid)
       THEN /\ keyMap' = MapInsert(keyMap, <<serial, slot>>,
                                   LegacyDisplay(serial, slot))
            /\ UNCHANGED <<m_error, wouldBlock, xchg>>
       ELSE \E b \in RandomBytes, o \in XchgOutcomes :
              /\ xchg' = XchgRecord(yk_key, slot, ProbeMayBlock, <<b>>, <<>>, o)
              /\ m_error' = ChallengeErrorOf(o)
              /\ wouldBlock' = TestWouldBlock(o, wouldBlock)
              /\ keyMap' =
                   IF TestRet(o)
                   THEN MapInsert(keyMap, <<serial, slot>>,
                          ProbedDisplay(serial, slot, TestWouldBlock(o, wouldBlock)))
                   ELSE keyMap
    /\ UNCHANGED <<world, op, args, response, i, yk_key, serial, pid, touch,
                   results, open, misuse, touched, oksFault, notif, fvkSkip>>

\* lines 174-175: free the status block, close the handle, next index.
FvkCloseLeak ==
    /\ pc = "fvk_close"
    /\ UNCHANGED <<open, misuse>>
    /\ xchg' = NoXchg
    /\ yk_key' = NullKey
    /\ serial' = 0
    /\ pid' = 0
    /\ touch' = 0
    /\ slot' = 1
    /\ wouldBlock' = "undef"
    /\ i' = i + 1
    /\ pc' = "fvk_open"
    /\ UNCHANGED <<world, m_error, op, args, response, keyMap, results,
                   touched, oksFault, notif, fvkSkip>>

FvkClose ==
    /\ pc = "fvk_close"
    /\ open' = ClosedSet(yk_key)
    /\ misuse' = CloseMisuse(yk_key)
    /\ xchg' = NoXchg
    /\ yk_key' = NullKey
    /\ serial' = 0
    /\ pid' = 0
    /\ touch' = 0
    /\ slot' = 1
    /\ wouldBlock' = "undef"
    /\ i' = i + 1
    /\ pc' = "fvk_open"
    /\ UNCHANGED <<world, m_error, op, args, response, keyMap, results,
                   touched, oksFault, notif, fvkSkip>>

\* ------------------------------------------------------------ openKeySerial
\* What the caller of openKeySerial does with the handle h it returns:
\* testChallenge (lines 200-204) probes it or goes straight to closeKey;
\* challenge (lines 240-248) fails with the not-connected message or goes on.
AfterOpenKeySerial(h) ==
    /\ yk_key' = h
    /\ IF op = "testChallenge"
       THEN /\ pc' = IF h # NullKey THEN "tc_probe" ELSE "tc_close"
            /\ UNCHANGED <<m_error, chRet>>
       ELSE IF h = NullKey
       THEN /\ m_error' = NotFoundMsg(argSerial)
            /\ chRet' = "YCR_ERROR"
            /\ pc' = "done"
       ELSE /\ pc' = "ch_started"
            /\ UNCHANGED <<m_error, chRet>>

\* openKeySerial, line 78: the sentinel serial 0 accepts any key.
SentinelNever(ser) == FALSE

SentinelSerial(ser) == ser = 0

\* openKeySerial, lines 81 and 86-87: a key that does not match is closed and
\* the loop goes on.
OksRejectLeak ==
    /\ UNCHANGED <<open, misuse>>
    /\ yk_key' = NullKey
    /\ i' = i + 1
    /\ pc' = "oks_open"
    /\ UNCHANGED <<m_error, chRet>>

OksReject ==
    /\ open' = ClosedSet(yk_key)
    /\ misuse' = CloseMisuse(yk_key)
    /\ yk_key' = NullKey
    /\ i' = i + 1
    /\ pc' = "oks_open"
    /\ UNCHANGED <<m_error, chRet>>

\* openKeySerial, lines 74-76 and 82-88: the loop head and openKey(i).  With
\* the sentinel serial 0 the first handle is returned unread (line 78).
OksOpen ==
    /\ pc = "oks_open"
    /\ IF i >= MAX_KEYS
       THEN /\ AfterOpenKeySerial(NullKey)
            /\ UNCHANGED <<i, open, touched, oksFault>>
       ELSE \E o \in OpenOutcomes(i) :
              /\ touched' = TRUE
              /\ IF o = 0
                 THEN /\ open' = open \cup {i}
                      /\ i' = i
                      /\ IF SentinelSerial(argSerial)
                         THEN AfterOpenKeySerial(i)
                         ELSE /\ yk_key' = i
                              /\ pc' = "oks_serial"
                              /\ UNCHANGED <<m_error, chRet>>
                 ELSE IF o = YK_ENOKEY
                 THEN /\ AfterOpenKeySerial(NullKey)
                      /\ UNCHANGED <<i, open>>
                 ELSE /\ pc' = "oks_open"
                      /\ i' = i + 1
                      /\ UNCHANGED <<yk_key, open, m_error, chRet>>
              /\ oksFault' = (oksFault \/ o \notin {0, YK_ENOKEY})
    /\ UNCHANGED <<world, op, args, response, fvkLocals, keyMap, tcRet,
                   misuse, xchg, notif, fvkSkip>>

\* openKeySerial, lines 78-81: getSerial and the comparison; a handle that
\* does not match is closed.
OksSerial ==
    /\ pc = "oks_serial"
    /\ touched' = TRUE
    /\ \E got \in {0, SerialAt(yk_key)} :
          /\ serial' = got
          /\ oksFault' = (oksFault \/ got = 0)
          /\ IF got = argSerial
             THEN /\ AfterOpenKeySerial(yk_key)
                  /\ UNCHANGED <<i, open, misuse>>
             ELSE OksReject
    /\ UNCHANGED <<world, op, args, response, pid, touch, slot, wouldBlock,
                   keyMap, tcRet, xchg, notif, fvkSkip>>

\* ------------------------------------------------------------ testChallenge
\* lines 197-200: no check of m_initialized, m_error is not cleared.
TestChallenge(serials) ==
    /\ pc = "idle"
    /\ \E ser \in serials, s \in 1 .. 2 :
       /\ FreshCall("testChallenge", ser, s, <<>>, <<>>)
       /\ tcRet' = FALSE
       /\ chRet' = "none"
       /\ pc' = "oks_open"
       /\ UNCHANGED m_error

\* lines 201-203 and 208-220: performTestChallenge on the resolved handle.
TcProbe ==
    /\ pc = "tc_probe"
    /\ \E b \in RandomBytes, o \in XchgOutcomes :
          /\ xchg' = XchgRecord(yk_key, argSlot, ProbeMayBlock, <<b>>, <<>>, o)
          /\ m_error' = ChallengeErrorOf(o)
          /\ wouldBlock' = TestWouldBlock(o, wouldBlock)
          /\ tcRet' = TestRet(o)
    /\ pc' = "tc_close"
    /\ UNCHANGED <<world, op, args, response, i, yk_key, serial, pid, touch,
                   slot, keyMap, chRet, open, misuse, touched, oksFault, notif,
                   fvkSkip>>

\* lines 204-205: closeKey(yk_key), also when yk_key is nullptr.
TcCloseSkipped ==
    /\ pc = "tc_close"
    /\ xchg' = NoXchg
    /\ yk_key' = NullKey
    /\ pc' = "done"
    /\ UNCHANGED <<world, m_error, op, args, response, i, fvkLocals, keyMap,
                   results, open, misuse, touched, oksFault, notif, fvkSkip>>

TcClose ==
    /\ pc = "tc_close"
    /\ open' = ClosedSet(yk_key)
    /\ misuse' = CloseMisuse(yk_key)
    /\ xchg' = NoXchg
    /\ yk_key' = NullKey
    /\ pc' = "done"
    /\ UNCHANGED <<world, m_error, op, args, response, i, fvkLocals, keyMap,
                   results, touched, oksFault, notif, fvkSkip>>

\* ---------------------------------------------------------------- challenge
\* lines 231-240: clear the error; fail fast when not initialised.
ChallengeUnchecked(serials, challenges, priors) ==
    /\ pc = "idle"
    /\ \E ser \in serials, s \in 1 .. 2, c \in challenges, r \in priors :
       /\ FreshCall("challenge", ser, s, c, r)
       /\ tcRet' = FALSE
       /\ m_error' = <<>>
       /\ chRet' = "none"
       /\ pc' = "oks_open"

Challenge(serials, challenges, priors) ==
    /\ pc = "idle"
    /\ \E ser \in serials, s \in 1 .. 2, c \in challenges, r \in priors :
       /\ FreshCall("challenge", ser, s, c, r)
       /\ tcRet' = FALSE
       /\ IF m_initialized
          THEN /\ m_error' = <<>>
               /\ chRet' = "none"
               /\ pc' = "oks_open"
          ELSE /\ m_error' = NotInitializedMsg
               /\ chRet' = "YCR_ERROR"
               /\ pc' = "done"

\* line 248: emit challengeStarted().
ChStartedSilent ==
    /\ pc = "ch_started"
    /\ pc' = "ch_exchange"
    /\ UNCHANGED <<world, m_error, op, args, response, i, yk_key, fvkLocals,
                   keyMap, results, open, misuse, touched, xchg, oksFault,
                   notif, fvkSkip>>

ChStarted ==
    /\ pc = "ch_started"
    /\ notif' = Append(notif, "started")
    /\ pc' = "ch_exchange"
    /\ UNCHANGED <<world, m_error, op, args, response, i, yk_key, fvkLocals,
                   keyMap, results, open, misuse, touched, xchg, oksFault,
                   fvkSkip>>

\* line 249 and 257-311: performChallenge with mayBlock = true.
ChExchangeRetry ==
    /\ pc = "ch_exchange"
    /\ \E o \in XchgOutcomes :
          /\ xchg' = XchgRecord(yk_key, argSlot, TRUE, chal, response, o)
          /\ response' = ResponseAfter(o)
          /\ m_error' = ChallengeErrorOf(o)
          /\ chRet' = ChallengeResultOf(o)
          /\ pc' = IF ChallengeResultOf(o) = "YCR_ERROR"
                   THEN "ch_exchange" ELSE "ch_close"
    /\ UNCHANGED <<world, op, args, i, yk_key, fvkLocals, keyMap, tcRet,
                   open, misuse, touched, oksFault, notif, fvkSkip>>

ChExchange ==
    /\ pc = "ch_exchange"
    /\ \E o \in XchgOutcomes :
          /\ xchg' = XchgRecord(yk_key, argSlot, TRUE, chal, response, o)
          /\ response' = ResponseAfter(o)
          /\ m_error' = ChallengeErrorOf(o)
          /\ chRet' = ChallengeResultOf(o)
    /\ pc' = "ch_close"
    /\ UNCHANGED <<world, op, args, i, yk_key, fvkLocals, keyMap, tcRet,
                   open, misuse, touched, oksFault, notif, fvkSkip>>

\* line 251: closeKey(yk_key).
ChClose ==
    /\ pc = "ch_close"
    /\ open' = ClosedSet(yk_key)
    /\ misuse' = CloseMisuse(yk_key)
    /\ xchg' = NoXchg
    /\ yk_key' = NullKey
    /\ pc' = "ch_completed"
    /\ UNCHANGED <<world, m_error, op, args, response, i, fvkLocals, keyMap,
                   results, touched, oksFault, notif, fvkSkip>>

\* lines 252-254: emit challengeCompleted() and return ret.
ChCompleted ==
    /\ pc = "ch_completed"
    /\ notif' = Append(notif, "completed")
    /\ pc' = "done"
    /\ UNCHANGED <<world, m_error, op, args, response, i, yk_key, fvkLocals,
                   keyMap, results, open, misuse, touched, xchg, oksFault,
                   fvkSkip>>

\* ------------------------------------------------------------------ return
\* The operation has returned (pc = "done"): the caller takes the result and
\* the driver is idle again.  Only the members survive: m_initialized and
\* m_error.
Return ==
    /\ pc = "done"
    /\ pc' = "idle"
    /\ op' = "none"
    /\ argSerial' = 0
    /\ argSlot' = 1
    /\ chal' = <<>>
    /\ response' = <<>>
    /\ i' = 0
    /\ yk_key' = NullKey
    /\ serial' = 0
    /\ pid' = 0
    /\ touch' = 0
    /\ slot' = 1
    /\ wouldBlock' = "undef"
    /\ keyMap' = EmptyMap
    /\ tcRet' = FALSE
    /\ chRet' = "none"
    /\ touched' = FALSE
    /\ xchg' = NoXchg
    /\ oksFault' = FALSE
    /\ notif' = <<>>
    /\ fvkSkip' = "none"
    /\ UNCHANGED <<world, m_error, open, misuse>>

\* ------------------------------------------------------------ the inputs
\* Serials a caller may ask for: the sentinel 0, every serial that can be
\* attached, and one that never is.
AskedSerials == 0 .. MaxDevices + 1

\* A challenge of n bytes (the bytes differ from each other and from padding).
Chal(n, seed) == [k \in 1 .. n |-> (seed + 7 * k) % 256]

\* Challenges handed to challenge() in the driver-wide specification.
SampleChallenges == {Chal(n, 100) : n \in {0, 32, CHALLENGE_LEN}}

\* Response buffers the caller may pass in.
PriorResponses == {<<>>, Resize(<<9, 9, 9>>, 3), Resize(<<9>>, 30)}

Next ==
    \/ FindValidKeys
    \/ FvkOpen
    \/ FvkSerial
    \/ FvkSlot
    \/ FvkClose
    \/ TestChallenge(AskedSerials)
    \/ TcProbe
    \/ TcClose
    \/ Challenge(AskedSerials, SampleChallenges, PriorResponses)
    \/ OksOpen
    \/ OksSerial
    \/ ChStarted
    \/ ChExchange
    \/ ChClose
    \/ ChCompleted
    \/ Return

Spec == Init /\ [][Next]_vars

\* ------------------------------------------------- the challenge executor
\* The public challenge operation alone, on one attached device, over every
\* challenge length up to MaxChallengeLen and two byte patterns.
AllChallenges ==
    {Chal(n, seed) : n \in 0 .. MaxChallengeLen, seed \in {1, 100}}

InitPad == Init /\ attached = 1 /\ m_initialized

NextPad ==
    \/ Challenge(0 .. 2, AllChallenges, PriorResponses)
    \/ OksOpen
    \/ OksSerial
    \/ ChStarted
    \/ ChExchange
    \/ ChClose
    \/ ChCompleted
    \/ Return

SpecPad == InitPad /\ [][NextPad]_vars

\* ------------------------------------------------------------------ claims
\* openKeySerial has just returned a handle to its caller.
OksFound == pc \in {"tc_probe", "ch_started"}

\* openKeySerial has just returned nullptr to its caller.
OksNone ==
    \/ op = "testChallenge" /\ pc = "tc_close" /\ yk_key = NullKey
    \/ op = "challenge" /\ pc = "done" /\ m_initialized /\ notif = <<>>

\* Enumeration indices of the attached devices whose serial is s.
AttachedWith(s) == {d \in 0 .. attached - 1 : SerialAt(d) = s}

\* C1: no handle is closed that is not open (each one is closed once), and
\* no handle is open when a public operation has returned or the driver is
\* idle, whatever the library answered.
C1_HandlesClosed ==
    /\ ~misuse
    /\ pc \in {"idle", "done"} => open = {}

\* C1 witness: challenge() returned through the timeout error path after it
\* had opened the key.
C1_Witness ==
    /\ pc = "done"
    /\ op = "challenge"
    /\ touched
    /\ chRet = "YCR_ERROR"
    /\ m_error = <<"Timeout">>

\* C2 (as stated): for a nonzero serial S, whenever a device with serial S is
\* attached, at whatever enumeration index, and the library reports no
\* failure, openKeySerial(S) returns a handle.
C2_Original ==
    (/\ argSerial # 0
     /\ OksFound \/ OksNone
     /\ AttachedWith(argSerial) # {}
     /\ ~oksFault) => OksFound

\* C2 (amended): for a nonzero serial S, openKeySerial(S) scans the indices
\* 0 .. MAX_KEYS-1 only.  A handle it returns is the handle of an attached
\* device at such an index whose reported serial is S, and it is then the
\* only open handle; the search goes on to the next index only after a key
\* that did not report S, and with that key closed; it returns a handle whenever the
\* device with serial S sits at an index below MAX_KEYS and the library
\* reports no failure; when it returns nullptr no handle is open.
C2_OpenBySerial ==
    (argSerial # 0 /\ op \in {"testChallenge", "challenge"}) =>
        /\ OksFound =>
              /\ yk_key \in 0 .. MAX_KEYS - 1
              /\ yk_key < attached
              /\ SerialAt(yk_key) = argSerial
              /\ serial = argSerial
              /\ open = {yk_key}
        /\ pc = "oks_open" => open = {} /\ serial # argSerial
        /\ OksNone => open = {}
        /\ (/\ OksFound \/ OksNone
            /\ \E d \in AttachedWith(argSerial) : d < MAX_KEYS
            /\ ~oksFault) => OksFound
        /\ (OksFound \/ OksNone) /\ AttachedWith(argSerial) = {} => OksNone

\* C2 witness: the key with serial 3 was found at index 2 after the keys at
\* indices 0 and 1 had been opened, read and closed.
C2_Witness ==
    /\ OksFound
    /\ argSerial = 3
    /\ yk_key = 2
    /\ ~oksFault

\* C3: with the sentinel serial 0 openKeySerial never reads a serial; the
\* handle it returns is the first index in 0 .. MAX_KEYS-1 that could be
\* opened (index 0 unless an open failed), and it is the only open handle;
\* it returns nullptr when no device is attached, and a handle when one is
\* attached and the library reports no failure.
C3_OpenAny ==
    (argSerial = 0 /\ op \in {"testChallenge", "challenge"}) =>
        /\ pc # "oks_serial"
        /\ OksFound =>
              /\ yk_key = i
              /\ i < MAX_KEYS
              /\ i < attached
              /\ open = {yk_key}
              /\ i > 0 => oksFault
        /\ OksNone => open = {}
        /\ (OksFound \/ OksNone) /\ attached = 0 => OksNone
        /\ (OksFound \/ OksNone) /\ attached >= 1 /\ ~oksFault =>
              OksFound /\ yk_key = 0

\* C3 witness: the key at index 0 could not be opened and the key at index 1
\* was returned unread.
C3_Witness ==
    /\ OksFound
    /\ argSerial = 0
    /\ yk_key = 1
    /\ oksFault

\* The slot loop of findValidKeys has just handled slot `slot - 1` of the
\* open key.
FvkSlotHandled ==
    /\ op = "findValidKeys"
    /\ pc \in {"fvk_slot", "fvk_close"}
    /\ slot >= 2

\* The library saw a challenge-response exchange on the open key for slot p.
ProbedSlot(p) ==
    /\ xchg.key = yk_key
    /\ xchg.cmd = (IF p = 1 THEN SLOT_CHAL_HMAC1 ELSE SLOT_CHAL_HMAC2)

\* The configuration-valid flag of slot p is set in the status just read.
FlagSet(p) == (touch \div p) % 2 = 1

\* How the library's last exchange ended.
EndedWouldBlock == xchg.outcome.ret = 0 /\ xchg.outcome.errno = YK_EWOULDBLOCK

EndedSuccess == xchg.outcome.ret # 0 \/ xchg.outcome.errno = 0

\* C4, per slot: right after findValidKeys handled a slot of a key that is not
\* of a legacy family (its serial is readable and nonzero): a slot whose flag
\* is set was probed and is listed iff the exchange ended in Success or
\* WouldBlock, labelled "Press" for WouldBlock and "Passive" for Success; a
\* slot whose flag is unset was not probed and is not listed.
C4_SlotListed ==
    (FvkSlotHandled /\ pid > NEO_OTP_U2F_CCID_PID) =>
        LET p == slot - 1
            key == <<serial, p>>
        IN  /\ serial # 0
            /\ IF FlagSet(p)
               THEN /\ ProbedSlot(p)
                    /\ key \in DOMAIN keyMap <=> (EndedWouldBlock \/ EndedSuccess)
                    /\ EndedWouldBlock =>
                          keyMap[key] = <<"name", serial, p, "Press">>
                    /\ EndedSuccess =>
                          keyMap[key] = <<"name", serial, p, "Passive">>
               ELSE /\ ~ProbedSlot(p)
                    /\ key \notin DOMAIN keyMap

\* C4, until the return: while findValidKeys runs, an entry once listed stays
\* as it is, and the only entry a step can add is the one of the slot that
\* step handles.
C4_ListingKept ==
    (op = "findValidKeys" /\ pc # "done") =>
        /\ \A k \in DOMAIN keyMap : k \in DOMAIN keyMap' /\ keyMap'[k] = keyMap[k]
        /\ \A k \in DOMAIN keyMap' \ DOMAIN keyMap :
              pc = "fvk_slot" /\ k = <<serial, slot>>

\* C4: in findValidKeys, for a key of a non-legacy family with a readable
\* nonzero serial, a slot in {1,2} whose configuration-valid flag is set is
\* listed in the returned inventory iff its capability probe succeeded
\* ("Press" exactly for WouldBlock, "Passive" exactly for Success); a slot
\* whose flag is unset is never probed and never listed.
C4_ProbeDecidesListing == [](C4_SlotListed) /\ [][C4_ListingKept]_vars

\* C4 witness: slot 1 of a YubiKey 4 answered WouldBlock and is listed with
\* "Press", slot 2 has no valid configuration.
C4_Witness ==
    /\ FvkSlotHandled
    /\ pc = "fvk_close"
    /\ pid = YK4_OTP_PID
    /\ touch = CONFIG1_VALID
    /\ <<serial, 1>> \in DOMAIN keyMap
    /\ keyMap[<<serial, 1>>][4] = "Press"
    /\ <<serial, 2>> \notin DOMAIN keyMap

\* C5: in findValidKeys no challenge-response exchange is issued on a key
\* whose product id is at or below the legacy threshold, for either slot, and
\* each of its slots whose configuration-valid flag is set is listed (a slot
\* whose flag is unset is not).
C5_LegacyNeverProbed ==
    (/\ op = "findValidKeys"
     /\ pc \in {"fvk_slot", "fvk_close"}
     /\ pid <= NEO_OTP_U2F_CCID_PID) =>
        /\ xchg = NoXchg
        /\ \A p \in 1 .. slot - 1 :
              <<serial, p>> \in DOMAIN keyMap <=> FlagSet(p)

\* C5 witness: both slots of a key whose product id is the threshold itself
\* were listed.
C5_Witness ==
    /\ op = "findValidKeys"
    /\ pc = "fvk_close"
    /\ pid = NEO_OTP_U2F_CCID_PID
    /\ touch = CONFIG1_VALID + CONFIG2_VALID
    /\ {<<serial, 1>>, <<serial, 2>>} \subseteq DOMAIN keyMap

\* C6 (as stated): the entry findValidKeys lists for a configured slot of a
\* legacy-family key is labelled with "Press".
C6_Original ==
    (FvkSlotHandled /\ pid < NEO_OTP_U2F_CCID_PID /\ FlagSet(slot - 1)) =>
        /\ <<serial, slot - 1>> \in DOMAIN keyMap
        /\ Len(keyMap[<<serial, slot - 1>>]) = 4
        /\ keyMap[<<serial, slot - 1>>][4] = "Press"

\* C6 (amended): for a legacy-family key with a readable serial, a slot whose
\* configuration-valid flag is set is listed under (serial, slot) with the
\* three-field label "<name> [<serial>] - Slot <n>", which carries no
\* Press/Passive field; a first key with only slot 1 configured yields
\* exactly the one entry (serial, 1).
C6_LegacyLabel ==
    (FvkSlotHandled /\ pid < NEO_OTP_U2F_CCID_PID /\ FlagSet(slot - 1)) =>
        /\ serial # 0
        /\ <<serial, slot - 1>> \in DOMAIN keyMap
        /\ keyMap[<<serial, slot - 1>>] = <<"name", serial, slot - 1>>
        /\ (pc = "fvk_close" /\ i = 0 /\ touch = CONFIG1_VALID) =>
              DOMAIN keyMap = {<<serial, 1>>}

\* C6 witness: the first key is a legacy key with only slot 1 configured and
\* its scan is complete.
C6_Witness ==
    /\ FvkSlotHandled
    /\ pc = "fvk_close"
    /\ i = 0
    /\ pid = YUBIKEY_PID
    /\ touch = CONFIG1_VALID
    /\ DOMAIN keyMap = {<<serial, 1>>}

\* What C7 promises of a call of challenge().
C7_FailsNotFound ==
    /\ pc \in {"oks_open", "oks_serial", "done"}
    /\ xchg = NoXchg
    /\ notif = <<>>
    /\ pc = "done" =>
          /\ chRet = "YCR_ERROR"
          /\ m_error = <<"NotFound", argSerial>>
          /\ open = {}

\* C7 (as stated): challenge() on an initialised driver, when no attached
\* device has the requested serial, returns Error with the not-connected
\* message naming the serial, issues no exchange and leaves no handle open.
C7_Original ==
    (/\ op = "challenge"
     /\ m_initialized
     /\ AttachedWith(argSerial) = {}) => C7_FailsNotFound

\* C7 (amended): the same for a requested serial other than 0 (serial 0 is
\* the sentinel that resolves to the first key that opens).
C7_NotConnected ==
    (/\ op = "challenge"
     /\ m_initialized
     /\ argSerial # 0
     /\ AttachedWith(argSerial) = {}) => C7_FailsNotFound

\* C7 witness: two keys were attached, neither with the requested serial, and
\* challenge() has returned.
C7_Witness ==
    /\ op = "challenge"
    /\ m_initialized
    /\ argSerial # 0
    /\ AttachedWith(argSerial) = {}
    /\ attached = 2
    /\ i = 2
    /\ ~oksFault
    /\ pc = "done"

\* C8: when the driver failed to initialise, findValidKeys returns an empty
\* inventory at once and makes no call to the device-access library.
C8_UninitializedScan ==
    (op = "findValidKeys" /\ ~m_initialized) =>
        /\ pc = "done"
        /\ keyMap = EmptyMap
        /\ ~touched
        /\ open = {}
        /\ xchg = NoXchg

\* C8 witness: findValidKeys returned on an uninitialised driver although
\* keys are attached.
C8_Witness ==
    /\ op = "findValidKeys"
    /\ ~m_initialized
    /\ pc = "done"
    /\ attached >= 1

\* challenge() returned through one of its fail-fast paths.
FailedFast ==
    /\ Len(m_error) > 0
    /\ m_error[1] \in {"NotInitialized", "NotFound"}

\* C9: in challenge(), once the key is resolved, "started" is emitted before
\* the exchange is issued and "completed" after the exchange has returned and
\* the handle is closed, whatever the exchange's outcome; on the fail-fast
\* paths neither is emitted; no other operation emits anything, so every
\* started is followed by exactly one completed before the next started.
C9_Notifications ==
    /\ notif \in {<<>>, <<"started">>, <<"started", "completed">>}
    /\ op # "challenge" => notif = <<>>
    /\ op = "challenge" =>
          /\ pc \in {"oks_open", "oks_serial", "ch_started"} =>
                notif = <<>> /\ xchg = NoXchg
          /\ pc = "ch_exchange" =>
                notif = <<"started">> /\ xchg = NoXchg /\ open = {yk_key}
          /\ pc = "ch_close" =>
                notif = <<"started">> /\ xchg # NoXchg /\ open = {yk_key}
          /\ pc = "ch_completed" =>
                notif = <<"started">> /\ open = {} /\ chRet # "none"
          /\ pc = "done" =>
                /\ open = {}
                /\ notif = IF FailedFast THEN <<>>
                           ELSE <<"started", "completed">>

\* C9 witness: challenge() returned WouldBlock after both notifications.
C9_Witness ==
    /\ op = "challenge"
    /\ pc = "done"
    /\ chRet = "YCR_WOULDBLOCK"
    /\ notif = <<"started", "completed">>

\* C10: for a challenge of L <= 64 bytes the executor sends exactly 64 bytes:
\* the first L are the challenge unchanged, the last 64 - L all hold the
\* value 64 - L; a 64-byte challenge is sent as it is.
C10_Padding ==
    (op = "challenge" /\ xchg # NoXchg /\ Len(chal) <= 64) =>
        /\ Len(xchg.sent) = 64
        /\ xchg.sentLen = 64
        /\ \A k \in 1 .. Len(chal) : xchg.sent[k] = chal[k]
        /\ \A k \in Len(chal) + 1 .. 64 : xchg.sent[k] = 64 - Len(chal)
        /\ Len(chal) = 64 => xchg.sent = chal

\* C10 witness: a 63-byte challenge was sent with one padding byte of value 1.
C10_Witness ==
    /\ op = "challenge"
    /\ xchg # NoXchg
    /\ Len(chal) = 63
    /\ xchg.sent[64] = 1

\* The exchange recorded on the open handle failed with the code e.
FailedWith(e) == xchg.outcome.ret = 0 /\ xchg.outcome.errno = e

\* C11: whenever performChallenge has returned, the response buffer holds
\* exactly 20 bytes, whatever it held before and however the exchange ended,
\* and the exchange itself was given a 64-byte output buffer.
C11_ResponseSize ==
    /\ xchg # NoXchg => xchg.respLen = 20 /\ xchg.outCap = 64
    /\ (op = "challenge" /\ pc \in {"ch_close", "ch_completed"}) =>
          Len(response) = 20
    /\ (op = "challenge" /\ pc = "done" /\ ~FailedFast) =>
          Len(response) = 20

\* C11 witness: challenge() returned after an exchange that timed out; the
\* response buffer has 20 bytes.
C11_Witness ==
    /\ op = "challenge"
    /\ pc = "ch_close"
    /\ FailedWith(YK_ETIMEOUT)
    /\ Len(response) = 20
    /\ xchg.outCap = 64

\* C12: performChallenge maps the outcome of the exchange: a failure with the
\* would-block code gives WouldBlock and no message; a failure with another
\* nonzero code gives Error and the message of the code (timeout, USB, or the
\* generic one carrying the code); an exchange that succeeded or left no
\* error code gives Success and no message.  testChallenge reports Success
\* and WouldBlock as true, Error as false.
C12_OutcomeMapping ==
    xchg # NoXchg =>
        /\ FailedWith(YK_EWOULDBLOCK) =>
              /\ m_error = <<>>
              /\ op = "challenge" => chRet = "YCR_WOULDBLOCK"
              /\ op = "testChallenge" => tcRet
        /\ FailedWith(YK_ETIMEOUT) =>
              /\ m_error = <<"Timeout">>
              /\ op = "challenge" => chRet = "YCR_ERROR"
              /\ op = "testChallenge" => ~tcRet
        /\ FailedWith(YK_EUSBERR) =>
              /\ m_error = <<"UsbError">>
              /\ op = "challenge" => chRet = "YCR_ERROR"
              /\ op = "testChallenge" => ~tcRet
        /\ ( /\ xchg.outcome.ret = 0
             /\ xchg.outcome.errno \notin
                   {0, YK_EWOULDBLOCK, YK_ETIMEOUT, YK_EUSBERR} ) =>
              /\ m_error = <<"ChallengeFailed", xchg.outcome.errno>>
              /\ op = "challenge" => chRet = "YCR_ERROR"
              /\ op = "testChallenge" => ~tcRet
        /\ (xchg.outcome.ret # 0 \/ xchg.outcome.errno = 0) =>
              /\ m_error = <<>>
              /\ op = "challenge" => chRet = "YCR_SUCCESS"
              /\ op = "testChallenge" => tcRet

\* C12 witness: an exchange of challenge() failed and left no error code; the
\* result is Success without a message.
C12_Witness ==
    /\ op = "challenge"
    /\ pc = "ch_close"
    /\ FailedWith(0)
    /\ chRet = "YCR_SUCCESS"
    /\ m_error = <<>>

\* C13: every exchange issued by the probe, from findValidKeys or from
\* testChallenge, is non-blocking; only the exchanges of challenge() may
\* block.
C13_ProbesNeverBlock ==
    xchg # NoXchg =>
        /\ op \in {"findValidKeys", "testChallenge", "challenge"}
        /\ xchg.mayBlock <=> op = "challenge"

\* C13 witness: testChallenge probed a slot that needs a touch; the exchange
\* was non-blocking and came back with would-block.
C13_Witness ==
    /\ op = "testChallenge"
    /\ pc = "tc_close"
    /\ FailedWith(YK_EWOULDBLOCK)
    /\ ~xchg.mayBlock
    /\ tcRet

\* The running operation has not come to a place yet where it sets a message:
\* findValidKeys before its first open or returning from an uninitialised
\* driver, openKeySerial searching, testChallenge with no handle resolved.
NothingToReport ==
    \/ op = "findValidKeys" /\ pc = "fvk_open" /\ i = 0
    \/ op = "findValidKeys" /\ pc = "done" /\ ~m_initialized
    \/ op \in {"testChallenge", "challenge"} /\ pc \in {"oks_open", "oks_serial"}
    \/ op = "testChallenge" /\ pc = "tc_close" /\ yk_key = NullKey
    \/ op = "testChallenge" /\ pc = "done" /\ attached = 0

\* C14: every public operation clears the error state when it starts, so
\* while it has produced no message of its own, and after it returned without
\* producing one (testChallenge that resolved no device), the error state is
\* empty: a message of an earlier operation is never seen.
C14_ErrorCleared == NothingToReport => m_error = <<>>

\* This step writes a message into the error state: an exchange that failed,
\* or one of the fail-fast paths of challenge().
AssignsMessage ==
    /\ m_error' # <<>>
    /\ \/ m_error' # m_error
       \/ xchg' # xchg /\ xchg' # NoXchg
       \/ pc = "idle" /\ op' = "challenge"

\* The running operation has already written the message the error state
\* holds (findValidKeys and challenge() start by clearing it).
AssignedBefore ==
    \/ op \in {"findValidKeys", "challenge"} /\ pc # "idle" /\ m_error # <<>>
    \/ op = "testChallenge" /\ pc = "tc_close" /\ xchg # NoXchg /\ m_error # <<>>

\* C15 as stated: within one public operation the error state is assigned a
\* message at most once, so no step assigns one after the operation has
\* assigned one already.
C15_Original == [][AssignedBefore => ~AssignsMessage]_vars

\* The places where the error state is assigned a message.
C15_AssignedWhere ==
    AssignsMessage =>
        \/ /\ op' = "challenge"
           /\ pc \in {"idle", "oks_open", "oks_serial"}
           /\ pc' = "done"
        \/ /\ op = "challenge"
           /\ pc = "ch_exchange"
           /\ m_error = <<>>
           /\ pc' = "ch_close"
        \/ /\ op = "testChallenge"
           /\ pc = "tc_probe"
           /\ pc' = "tc_close"
        \/ /\ op = "findValidKeys"
           /\ pc = "fvk_slot"
           /\ slot \in 1 .. 2
           /\ slot' = slot + 1
           /\ xchg'.cmd = YkCmd(slot)

\* After those places, testChallenge and challenge() assign nothing more.
C15_AssignedLast ==
    ( /\ op \in {"testChallenge", "challenge"}
      /\ pc \in {"tc_close", "ch_close", "ch_completed", "done"} ) =>
        ~AssignsMessage

\* C15 (amended): testChallenge and challenge() assign a message to the error
\* state at most once per call; findValidKeys assigns one only in a probe,
\* at most once for each slot of each device it probes, so several times in
\* one scan, the message of the last failing probe remaining unless a later
\* probe clears it.
C15_AssignedOncePerExchange ==
    [][C15_AssignedWhere /\ C15_AssignedLast]_vars

\* C15 witness: findValidKeys has probed the second slot of a key after the
\* probe of the first had set a message, and set another message.
C15_Witness ==
    /\ op = "findValidKeys"
    /\ pc = "fvk_close"
    /\ touch = 3
    /\ pid > NEO_OTP_U2F_CCID_PID
    /\ DOMAIN keyMap = {}
    /\ i = 0
    /\ xchg.cmd = SLOT_CHAL_HMAC2
    /\ m_error = <<"UsbError">>

\* The smaller of two numbers.
Min(a, b) == IF a < b THEN a ELSE b

\* C16: in findValidKeys an open that fails with a USB or another error at
\* index i, and a key whose serial cannot be read, do not end the scan: the
\* next index is the one opened next, and the scan ends only when the
\* enumeration is exhausted (no key at the index) or all MAX_KEYS indices have
\* been tried, so every attached key up to index 3 is opened; after the
\* no-key answer nothing more is opened.
C16_ScanGoesOn ==
    op = "findValidKeys" =>
        /\ fvkSkip \in {"usb", "error", "serial"} =>
              /\ i >= 1
              /\ i <= Min(attached, MAX_KEYS)
              /\ open = {}
              /\ pc = "fvk_open" \/ (pc = "done" /\ i = MAX_KEYS)
        /\ fvkSkip = "nokey" =>
              /\ pc = "done"
              /\ i = attached
              /\ i < MAX_KEYS
              /\ open = {}
        /\ (pc = "done" /\ m_initialized) =>
              /\ i = Min(attached, MAX_KEYS)
              /\ i < MAX_KEYS => fvkSkip = "nokey"
        /\ pc \in {"fvk_serial", "fvk_slot", "fvk_close"} =>
              /\ yk_key = i
              /\ i < Min(attached, MAX_KEYS)

\* C16 witness: the open at index 2 failed with a USB error after a key had
\* been listed, and the scan is about to open index 3, where a key is attached.
C16_Witness ==
    /\ op = "findValidKeys"
    /\ pc = "fvk_open"
    /\ fvkSkip = "usb"
    /\ i = 3
    /\ attached > 3
    /\ DOMAIN keyMap # {}

\* C17: during a scan, in findValidKeys and in the search of openKeySerial,
\* at most one handle is open: when the next index is about to be opened no
\* handle is open, and an open handle is the one of the current index.
C17_OneHandleOpen ==
    /\ Cardinality(open) <= 1
    /\ pc \in {"fvk_open", "oks_open"} => open = {}
    /\ open # {} => open = {i} /\ yk_key = i

\* C17 witness: findValidKeys holds the handle of index 3, the fourth key it
\* opened, and no other.
C17_Witness ==
    /\ op = "findValidKeys"
    /\ pc = "fvk_slot"
    /\ i = 3
    /\ open = {3}
    /\ Cardinality(DOMAIN keyMap) >= 3

\* C18: when challenge() has returned, the result is Error exactly when the
\* error state holds a message: not initialised, key not found, timeout, USB
\* error and the other errors all set one; Success and WouldBlock leave the
\* error state empty.
C18_ErrorIffMessage ==
    (op = "challenge" /\ pc \in {"ch_close", "ch_completed", "done"}) =>
        /\ chRet \in {"YCR_SUCCESS", "YCR_WOULDBLOCK", "YCR_ERROR"}
        /\ chRet = "YCR_ERROR" <=> m_error # <<>>
        /\ ~m_initialized => m_error = <<"NotInitialized">>

\* C18 witness: challenge() returned WouldBlock and the error state is empty.
C18_Witness ==
    /\ op = "challenge"
    /\ pc = "done"
    /\ chRet = "YCR_WOULDBLOCK"
    /\ m_error = <<>>
    /\ Len(chal) = 32

\* C19: every key of the inventory of findValidKeys has a serial that is not
\* 0 and a slot that is 1 or 2; a key whose serial is read as 0 is skipped
\* before any slot is looked at, so it adds no entry.
C19_InventoryKeys ==
    /\ \A k \in DOMAIN keyMap :
          /\ k[1] # 0
          /\ k[2] \in {1, 2}
          /\ \E d \in 0 .. Min(i, attached - 1) : k[1] = SerialAt(d)
    /\ (op = "findValidKeys" /\ pc \in {"fvk_slot", "fvk_close"}) => serial # 0
    /\ (op = "findValidKeys" /\ fvkSkip = "serial") =>
          \A k \in DOMAIN keyMap : k[1] # SerialAt(i - 1)

\* C19 witness: findValidKeys listed both slots of the first key, could not
\* read the serial of the second and goes on with two entries.
C19_Witness ==
    /\ op = "findValidKeys"
    /\ pc = "fvk_open"
    /\ fvkSkip = "serial"
    /\ i = 2
    /\ DOMAIN keyMap = {<<1, 1>>, <<1, 2>>}

\* C20 as stated: on a driver that failed to initialise no public operation
\* calls the library.
C20_Original ==
    ~m_initialized => ~touched /\ open = {} /\ xchg = NoXchg

\* C20 (amended): on a driver that failed to initialise, findValidKeys and
\* challenge() return at once and make no call to the library (testChallenge
\* has no such check).
C20_UninitializedNoCalls ==
    (~m_initialized /\ op \in {"findValidKeys", "challenge"}) =>
        /\ pc = "done"
        /\ ~touched
        /\ open = {}
        /\ xchg = NoXchg
        /\ notif = <<>>

\* C20 witness: challenge() failed fast on an uninitialised driver with a key
\* attached.
C20_Witness ==
    /\ op = "challenge"
    /\ ~m_initialized
    /\ pc = "done"
    /\ attached >= 1
    /\ chRet = "YCR_ERROR"
    /\ ~touched
====
